---- MODULE Spec2Model ----
(***************************************************************************)
(* Verification model of the developer-facing validation subsystem:        *)
(*   pkg/development/devcontext.go  (NewDevContext, Dispose, loadCompiled, *)
(*                                   loadTuples, DistinguishGraphError)    *)
(*   developmentmembership FoundSubject (ToValidationString), and the      *)
(*   tracking set behind FoundSubjects                                     *)
(*   postgres datastore: WriteNamespace, ReadNamespace, DeleteNamespace    *)
(* Go errors are records [code, cats, msg]: cats is the set of error       *)
(* categories found along the error's Unwrap chain (what errors.Is and     *)
(* errors.As inspect), code is the gRPC status code of a status error.     *)
(***************************************************************************)
EXTENDS Integers, Sequences, FiniteSets, TLC

VARIABLES
    gPc,        \* classifier call: "ready" before the call, "done" after it
    gErr,       \* dispatchError handed to DistinguishGraphError
    gSource,    \* source argument
    gLine,      \* line argument
    gColumn,    \* column argument
    gContext,   \* context argument
    gOut,       \* the pair returned: [devErr, err]
    sPc,        \* rendering call: "ready" before the call, "done" after it
    fs,         \* the FoundSubject ToValidationString is called on
    sOut,       \* what the call produced: [panic, str]
    eOut,       \* what ExcludedSubjectsFromWildcard produced: [panic, excluded, isWildcard]
    foundSubjects,  \* a FoundSubjects: [subjects], the tracking set being built
    added,          \* the FoundSubjects added to it so far, in order
    pc,             \* position in NewDevContext / of its caller
    requestContext, \* the RequestContext handed to NewDevContext
    ds,             \* the memdb datastore created by NewDevContext
    rwt,            \* the read-write transaction of ds.ReadWriteTx
    examined,       \* what the loops of loadCompiled and loadTuples met so far
    inputErrors,    \* inputErrors (errors / devErrors inside the loaders)
    curErr,         \* err of newDevContextWithDatastore and of its callback
    updates,        \* updates of loadTuples
    inner,          \* what newDevContextWithDatastore returned
    ret,            \* what NewDevContext returned
    dc,             \* the DevContext the caller holds
    calls,          \* the calls made to the collaborators, in order
    disposeCalls,   \* number of Dispose calls made on dc
    nsRows,         \* the rows of tableNamespace
    tplRows,        \* the rows of tableTuple
    lastTxn,        \* the newest transaction id handed out
    pgOut,          \* the last datastore call and what it returned
    pgBefore,       \* the rows of both tables before that call
    lastMutation,   \* per namespace name, its last successful write or delete
    revisions       \* the revisions successful writes and deletes returned, in order

gVars == <<gPc, gErr, gSource, gLine, gColumn, gContext, gOut>>

sVars == <<sPc, fs, sOut, eOut>>

tVars == <<foundSubjects, added>>

pVars == <<nsRows, tplRows, lastTxn, pgOut, pgBefore, lastMutation, revisions>>

dVars ==
    <<pc, requestContext, ds, rwt, examined, inputErrors, curErr, updates, inner, ret,
      dc, calls, disposeCalls>>

vars ==
    <<gPc, gErr, gSource, gLine, gColumn, gContext, gOut, sPc, fs, sOut, eOut, foundSubjects, added,
      pc, requestContext, ds, rwt, examined, inputErrors, curErr, updates, inner, ret,
      dc, calls, disposeCalls, nsRows, tplRows, lastTxn, pgOut, pgBefore, lastMutation,
      revisions>>

----------------------------------------------------------------------------
(* Bounds *)

MaxLine == 1

MaxExcluded == 3

MaxCaveats == 1

MaxNamespaces == 2

MaxTuples == 3

MaxDispose == 2

MaxAdds == 3

MaxTxn == 3

----------------------------------------------------------------------------
(* Errors *)

\* The error types and sentinels the classifier inspects.
DevCategories == {"MaxDepth", "UnknownNamespace", "UnknownRelation", "InvalidRelation"}

InfraCategories ==
    {"RequestCanceled", "InvalidArgument", "InvalidRevision",
     "RelationMissingTypeInfo", "AlwaysFail"}

Categories == DevCategories \cup InfraCategories

\* The nil error.
NilErr == [code |-> "nil", cats |-> {}, msg |-> <<>>]

\* A plain (non-status) Go error whose chain holds the categories cs.
GoError(cs, m) == [code |-> "NoStatus", cats |-> cs, msg |-> <<m>>]

\* errors.Is(err, sentinel) / errors.As(err, &target): a walk of the chain.
ErrorsIs(err, cat) == cat \in err.cats

\* status.Errorf(code, format, err): a new status error, the original's text
\* formatted with %s into the message (not wrapped).
StatusErrorf(c, prefix, err) == [code |-> c, cats |-> {}, msg |-> <<prefix>> \o err.msg]

\* The nil *DeveloperError.
NilDevErr ==
    [kind |-> "nil", source |-> "nil", message |-> <<>>, line |-> 0, column |-> 0,
     context |-> ""]

DeveloperError(m, s, k, l, c, x) ==
    [kind |-> k, source |-> s, message |-> m, line |-> l, column |-> c, context |-> x]

----------------------------------------------------------------------------
(* rewriteACLError and distinguishGraphError *)

\* Mutant: the invalid-argument row is tested before the cancellation row.
rewriteACLErrorSwapped(err) ==
    IF ErrorsIs(err, "UnknownNamespace") \/ ErrorsIs(err, "UnknownRelation")
    THEN StatusErrorf("Canceled", "request canceled: ", err)
    ELSE IF ErrorsIs(err, "InvalidArgument")
    THEN StatusErrorf("InvalidArgument", "", err)
    ELSE IF ErrorsIs(err, "RequestCanceled")
    THEN StatusErrorf("Canceled", "request canceled: ", err)
    ELSE IF ErrorsIs(err, "InvalidRevision")
    THEN StatusErrorf("OutOfRange", "invalid zookie: ", err)
    ELSE IF ErrorsIs(err, "RelationMissingTypeInfo")
    THEN StatusErrorf("FailedPrecondition", "failed precondition: ", err)
    ELSE IF ErrorsIs(err, "AlwaysFail")
    THEN StatusErrorf("Internal", "internal error: ", err)
    ELSE IF ErrorsIs(err, "InvalidRelation")
    THEN StatusErrorf("InvalidArgument", "", err)
    ELSE err

\* Mutant: an error of no known category is dropped instead of propagated.
rewriteACLErrorDropsUnknown(err) ==
    IF ErrorsIs(err, "UnknownNamespace") \/ ErrorsIs(err, "UnknownRelation")
          \/ ErrorsIs(err, "RequestCanceled")
    THEN StatusErrorf("Canceled", "request canceled: ", err)
    ELSE IF ErrorsIs(err, "InvalidArgument")
    THEN StatusErrorf("InvalidArgument", "", err)
    ELSE IF ErrorsIs(err, "InvalidRevision")
    THEN StatusErrorf("OutOfRange", "invalid zookie: ", err)
    ELSE IF ErrorsIs(err, "RelationMissingTypeInfo")
    THEN StatusErrorf("FailedPrecondition", "failed precondition: ", err)
    ELSE IF ErrorsIs(err, "AlwaysFail")
    THEN StatusErrorf("Internal", "internal error: ", err)
    ELSE IF ErrorsIs(err, "InvalidRelation")
    THEN StatusErrorf("InvalidArgument", "", err)
    ELSE NilErr

\* The switch of rewriteACLError: the two leading cases fall through into the
\* cancellation case; the default case tests invalidRelationError and
\* otherwise returns err itself.
rewriteACLError(err) ==
    IF ErrorsIs(err, "UnknownNamespace") \/ ErrorsIs(err, "UnknownRelation")
          \/ ErrorsIs(err, "RequestCanceled")
    THEN StatusErrorf("Canceled", "request canceled: ", err)
    ELSE IF ErrorsIs(err, "InvalidArgument")
    THEN StatusErrorf("InvalidArgument", "", err)
    ELSE IF ErrorsIs(err, "InvalidRevision")
    THEN StatusErrorf("OutOfRange", "invalid zookie: ", err)
    ELSE IF ErrorsIs(err, "RelationMissingTypeInfo")
    THEN StatusErrorf("FailedPrecondition", "failed precondition: ", err)
    ELSE IF ErrorsIs(err, "AlwaysFail")
    THEN StatusErrorf("Internal", "internal error: ", err)
    ELSE IF ErrorsIs(err, "InvalidRelation")
    THEN StatusErrorf("InvalidArgument", "", err)
    ELSE err

\* Mutant: the unknown-object-type test runs before the max-depth test.
distinguishGraphErrorReordered(dispatchError, source, line, column, context) ==
    IF ErrorsIs(dispatchError, "UnknownNamespace")
    THEN [devErr |-> DeveloperError(dispatchError.msg, source, "UNKNOWN_OBJECT_TYPE",
                                    line, column, context),
          err |-> NilErr]
    ELSE IF ErrorsIs(dispatchError, "MaxDepth")
    THEN [devErr |-> DeveloperError(dispatchError.msg, source, "MAXIMUM_RECURSION",
                                    line, column, context),
          err |-> NilErr]
    ELSE IF ErrorsIs(dispatchError, "UnknownRelation")
    THEN [devErr |-> DeveloperError(dispatchError.msg, source, "UNKNOWN_RELATION",
                                    line, column, context),
          err |-> NilErr]
    ELSE IF ErrorsIs(dispatchError, "InvalidRelation")
    THEN [devErr |-> DeveloperError(dispatchError.msg, source, "UNKNOWN_RELATION",
                                    line, column, context),
          err |-> NilErr]
    ELSE [devErr |-> NilDevErr, err |-> rewriteACLError(dispatchError)]

distinguishGraphError(dispatchError, source, line, column, context) ==
    IF ErrorsIs(dispatchError, "MaxDepth")
    THEN [devErr |-> DeveloperError(dispatchError.msg, source, "MAXIMUM_RECURSION",
                                    line, column, context),
          err |-> NilErr]
    ELSE IF ErrorsIs(dispatchError, "UnknownNamespace")
    THEN [devErr |-> DeveloperError(dispatchError.msg, source, "UNKNOWN_OBJECT_TYPE",
                                    line, column, context),
          err |-> NilErr]
    ELSE IF ErrorsIs(dispatchError, "UnknownRelation")
    THEN [devErr |-> DeveloperError(dispatchError.msg, source, "UNKNOWN_RELATION",
                                    line, column, context),
          err |-> NilErr]
    ELSE IF ErrorsIs(dispatchError, "InvalidRelation")
    THEN [devErr |-> DeveloperError(dispatchError.msg, source, "UNKNOWN_RELATION",
                                    line, column, context),
          err |-> NilErr]
    ELSE [devErr |-> NilDevErr, err |-> rewriteACLError(dispatchError)]

----------------------------------------------------------------------------
(* Strings: a Go string is the sequence of its characters; characters are  *)
(* compared by their position in Ascii, which lists them by byte value.    *)

Ascii == <<" ", "#", "*", ",", "-", "1", ":", "a", "b", "{", "}">>

Ord(c) == CHOOSE i \in 1..Len(Ascii) : Ascii[i] = c

\* a < b for Go strings: byte-wise lexicographic order.
StrLess(a, b) ==
    \E i \in 1..Len(b) :
        /\ i <= Len(a) + 1
        /\ \A j \in 1..(i - 1) : a[j] = b[j]
        /\ (i = Len(a) + 1 \/ Ord(a[i]) < Ord(b[i]))

\* Insertion of x into the ascending sequence sorted.
RECURSIVE InsertSorted(_, _)
InsertSorted(x, sorted) ==
    IF sorted = <<>> THEN <<x>>
    ELSE IF StrLess(Head(sorted), x)
         THEN <<Head(sorted)>> \o InsertSorted(x, Tail(sorted))
         ELSE <<x>> \o sorted

\* sort.Strings: the strings in increasing order.
RECURSIVE SortStrings(_)
SortStrings(strs) ==
    IF strs = <<>> THEN <<>>
    ELSE InsertSorted(Head(strs), SortStrings(Tail(strs)))

\* strings.Join(elems, sep)
RECURSIVE StringsJoin(_, _)
StringsJoin(elems, sep) ==
    IF elems = <<>> THEN <<>>
    ELSE IF Len(elems) = 1 THEN elems[1]
    ELSE elems[1] \o sep \o StringsJoin(Tail(elems), sep)

----------------------------------------------------------------------------
(* FoundSubject *)

PublicWildcard == <<"*">>

NoCaveat == "nil"

ONR(ns, id, rel) == [namespace |-> ns, objectId |-> id, relation |-> rel]

\* tuple.StringONR: namespace:objectId#relation
StringONR(onr) == onr.namespace \o <<":">> \o onr.objectId \o <<"#">> \o onr.relation

\* The struct literal FoundSubject{subject, excludedSubjects, caveatExpression,
\* relationships}.
FoundSubject(subject, excluded, caveat, rels) ==
    [subject |-> subject, excludedSubjects |-> excluded, caveatExpression |-> caveat,
     relationships |-> rels]

NewFoundSubject(subject, resources) == FoundSubject(subject, <<>>, NoCaveat, resources)

\* A panic, and a returned string.
Panicked == [panic |-> TRUE, str |-> <<>>]

Returned(str) == [panic |-> FALSE, str |-> str]

\* What ExcludedSubjectsFromWildcard returns for a subject that is no wildcard.
NotWildcard == [panic |-> FALSE, excluded |-> <<>>, isWildcard |-> FALSE]

\* Mutant: a conditional exclusion is exported like an unconditional one, its
\* caveat expression dropped.
ExcludedSubjectsFromWildcardDropsCaveats(f) ==
    IF f.subject.objectId = PublicWildcard
    THEN [panic |-> FALSE,
          excluded |-> [i \in 1..Len(f.excludedSubjects) |-> f.excludedSubjects[i].subject],
          isWildcard |-> TRUE]
    ELSE NotWildcard

\* ExcludedSubjectsFromWildcard: [panic, excluded, isWildcard].
ExcludedSubjectsFromWildcard(f) ==
    IF f.subject.objectId = PublicWildcard
    THEN IF \E i \in 1..Len(f.excludedSubjects) :
                f.excludedSubjects[i].caveatExpression # NoCaveat
         THEN [panic |-> TRUE, excluded |-> <<>>, isWildcard |-> TRUE]
         ELSE [panic |-> FALSE,
               excluded |-> [i \in 1..Len(f.excludedSubjects) |->
                                f.excludedSubjects[i].subject],
               isWildcard |-> TRUE]
    ELSE NotWildcard

\* Mutant: the excluded ONR strings are joined in the order they are stored.
ToValidationStringUnsorted(f) ==
    IF f.caveatExpression # NoCaveat THEN Panicked
    ELSE LET onrString == StringONR(f.subject)
             ex == ExcludedSubjectsFromWildcard(f)
         IN  IF ex.panic THEN Panicked
             ELSE IF ex.isWildcard /\ Len(ex.excluded) > 0
             THEN LET excludedONRStrings ==
                          [i \in 1..Len(ex.excluded) |-> StringONR(ex.excluded[i])]
                  IN  Returned(onrString \o <<" ", "-", " ", "{">>
                               \o StringsJoin(excludedONRStrings, <<",", " ">>)
                               \o <<"}">>)
             ELSE Returned(onrString)

ToValidationString(f) ==
    IF f.caveatExpression # NoCaveat THEN Panicked
    ELSE LET onrString == StringONR(f.subject)
             ex == ExcludedSubjectsFromWildcard(f)
         IN  IF ex.panic THEN Panicked
             ELSE IF ex.isWildcard /\ Len(ex.excluded) > 0
             THEN LET excludedONRStrings ==
                          [i \in 1..Len(ex.excluded) |-> StringONR(ex.excluded[i])]
                  IN  Returned(onrString \o <<" ", "-", " ", "{">>
                               \o StringsJoin(SortStrings(excludedONRStrings), <<",", " ">>)
                               \o <<"}">>)
             ELSE Returned(onrString)

----------------------------------------------------------------------------
(* The rendering as a state machine: Init draws the FoundSubject, the      *)
(* action applies ToValidationString to it.                                *)

NamespaceNames == {<<"a">>, <<"a", "1">>}

ObjectIds == {<<"a">>, <<"a", "b">>}

RelationNames == {<<"a">>}

CaveatExpressions == {NoCaveat, "c1"}

SeqsUpTo(S, n) == UNION {[1..k -> S] : k \in 0..n}

\* The entries of an exclusion list: concrete subjects, with or without a caveat.
ExcludedEntries ==
    {FoundSubject(ONR(ns, id, rel), <<>>, c, {}) :
        ns \in NamespaceNames, id \in ObjectIds, rel \in RelationNames,
        c \in CaveatExpressions}

\* Wildcard subjects carry any exclusion list, concrete subjects none.
FoundSubjectValues ==
    {FoundSubject(ONR(ns, PublicWildcard, rel), ex, c, {}) :
        ns \in {<<"a">>}, rel \in RelationNames, c \in CaveatExpressions,
        ex \in SeqsUpTo(ExcludedEntries, MaxExcluded)}
    \cup
    {FoundSubject(ONR(ns, id, rel), <<>>, c, {}) :
        ns \in NamespaceNames, id \in ObjectIds, rel \in RelationNames,
        c \in CaveatExpressions}

StringInit ==
    /\ sPc = "ready"
    /\ fs \in FoundSubjectValues
    /\ sOut = Returned(<<>>)
    /\ eOut = NotWildcard

StringIdle ==
    /\ sPc = "idle"
    /\ fs = NewFoundSubject(ONR(<<"a">>, <<"a">>, <<"a">>), {})
    /\ sOut = Returned(<<>>)
    /\ eOut = NotWildcard

CallToValidationString ==
    /\ sPc = "ready"
    /\ sOut' = ToValidationString(fs)
    /\ sPc' = "done"
    /\ UNCHANGED <<fs, eOut>>
    /\ UNCHANGED <<gVars, dVars, tVars, pVars>>

CallExcludedSubjectsFromWildcard ==
    /\ sPc = "ready"
    /\ eOut' = ExcludedSubjectsFromWildcard(fs)
    /\ sPc' = "exported"
    /\ UNCHANGED <<fs, sOut>>
    /\ UNCHANGED <<gVars, dVars, tVars, pVars>>

----------------------------------------------------------------------------
(* Subject Tracking Set: the TrackingSubjectSet held by FoundSubjects. Its   *)
(* merge rules are those of the data model: relationships are united, caveat *)
(* expressions are OR-ed (an unconditional finding dominates), and the       *)
(* exclusions of a wildcard are intersected by subject identity.             *)

\* The named caveats an expression is built from. An expression over them
\* built with OR is named by its atoms: "c1", "c2", "c1||c2".
CaveatAtoms == {"c1", "c2"}

CaveatNames(expr) == IF expr = "c1||c2" THEN CaveatAtoms ELSE {expr}

CaveatOfNames(names) == IF names = CaveatAtoms THEN "c1||c2" ELSE CHOOSE a \in names : TRUE

\* Mutant: the OR of a condition with no condition keeps the condition.
CaveatOrKeepsCondition(first, second) ==
    IF first = NoCaveat THEN second
    ELSE IF second = NoCaveat THEN first
    ELSE CaveatOfNames(CaveatNames(first) \cup CaveatNames(second))

\* The logical OR of two caveat expressions; nil, the unconditional finding,
\* dominates.
CaveatOr(first, second) ==
    IF first = NoCaveat \/ second = NoCaveat THEN NoCaveat
    ELSE CaveatOfNames(CaveatNames(first) \cup CaveatNames(second))

\* The subjects of the entries of an exclusion list.
ExcludedSubjectsOf(f) == {f.excludedSubjects[i].subject : i \in 1..Len(f.excludedSubjects)}

\* The entries of existing's exclusion list that incoming excludes too.
RECURSIVE IntersectExclusions(_, _)
IntersectExclusions(excluded, incoming) ==
    IF excluded = <<>> THEN <<>>
    ELSE IF Head(excluded).subject \in ExcludedSubjectsOf(incoming)
         THEN <<Head(excluded)>> \o IntersectExclusions(Tail(excluded), incoming)
         ELSE IntersectExclusions(Tail(excluded), incoming)

\* The entries of incoming's exclusion list that existing does not hold yet.
RECURSIVE NewExclusions(_, _)
NewExclusions(excluded, existing) ==
    IF excluded = <<>> THEN <<>>
    ELSE IF Head(excluded).subject \in ExcludedSubjectsOf(existing)
         THEN NewExclusions(Tail(excluded), existing)
         ELSE <<Head(excluded)>> \o NewExclusions(Tail(excluded), existing)

\* Mutant: the exclusions of the two findings are united.
MergeUnitesExclusions(existing, incoming) ==
    FoundSubject(existing.subject,
                 existing.excludedSubjects
                    \o NewExclusions(incoming.excludedSubjects, existing),
                 CaveatOr(existing.caveatExpression, incoming.caveatExpression),
                 existing.relationships \cup incoming.relationships)

\* Mutant: the relationships of the later finding replace those of the earlier.
MergeKeepsLastRelationships(existing, incoming) ==
    FoundSubject(existing.subject,
                 IntersectExclusions(existing.excludedSubjects, incoming),
                 CaveatOr(existing.caveatExpression, incoming.caveatExpression),
                 incoming.relationships)

\* The merge of two findings of the same subject.
Merge(existing, incoming) ==
    FoundSubject(existing.subject,
                 IntersectExclusions(existing.excludedSubjects, incoming),
                 CaveatOr(existing.caveatExpression, incoming.caveatExpression),
                 existing.relationships \cup incoming.relationships)

\* The position of the entry for subject in the set (0: none).
IndexOfSubject(set, subject) ==
    IF \E i \in 1..Len(set) : set[i].subject = subject
    THEN CHOOSE i \in 1..Len(set) : set[i].subject = subject
    ELSE 0

\* Mutant: every finding becomes an entry of its own.
TrackingSubjectSetAddAppends(set, f) == Append(set, f)

\* TrackingSubjectSet.Add: insert, or merge into the entry of the same subject.
TrackingSubjectSetAdd(set, f) ==
    IF IndexOfSubject(set, f.subject) = 0
    THEN Append(set, f)
    ELSE [set EXCEPT ![IndexOfSubject(set, f.subject)] = Merge(@, f)]

\* TrackingSubjectSet.ToSlice
ToSlice(set) == set

\* The zero FoundSubject Get returns with found = false.
ZeroFoundSubject == FoundSubject(ONR(<<>>, <<>>, <<>>), <<>>, NoCaveat, {})

\* TrackingSubjectSet.Get
Get(set, subject) ==
    IF IndexOfSubject(set, subject) = 0
    THEN [value |-> ZeroFoundSubject, found |-> FALSE]
    ELSE [value |-> set[IndexOfSubject(set, subject)], found |-> TRUE]

\* The struct FoundSubjects{subjects}.
FoundSubjects(set) == [subjects |-> set]

ListFound(fss) == ToSlice(fss.subjects)

LookupSubject(fss, subject) == Get(fss.subjects, subject)

----------------------------------------------------------------------------
(* The tracking set as a state machine: findings are added one at a time.  *)

WildcardSubject == ONR(<<"a">>, PublicWildcard, <<"a">>)

ConcreteSubjects == {ONR(<<"a">>, <<"a">>, <<"a">>), ONR(<<"a">>, <<"a", "b">>, <<"a">>)}

\* The exclusion lists of the findings: the concrete subjects in any order,
\* each at most once.
ExclusionLists ==
    {ex \in SeqsUpTo({NewFoundSubject(s, {}) : s \in ConcreteSubjects},
                     Cardinality(ConcreteSubjects)) :
        \A i, j \in 1..Len(ex) : i # j => ex[i] # ex[j]}

TrackedCaveats == {NoCaveat} \cup CaveatAtoms

\* The provenance of a finding: one resource or the other.
TrackedRelationships == {{s} : s \in ConcreteSubjects}

\* The findings a traversal hands to the set: the wildcard with any exclusion
\* list and one concrete subject, with or without a condition.
TrackedFindings ==
    {FoundSubject(WildcardSubject, ex, c, rels) :
        ex \in ExclusionLists, c \in TrackedCaveats, rels \in TrackedRelationships}
    \cup
    {FoundSubject(s, <<>>, c, rels) :
        s \in {ONR(<<"a">>, <<"a">>, <<"a">>)}, c \in TrackedCaveats,
        rels \in TrackedRelationships}

TrackInit ==
    /\ foundSubjects = FoundSubjects(<<>>)
    /\ added = <<>>

\* No finding is ever added.
TrackIdle == TrackInit

Add ==
    /\ Len(added) < MaxAdds
    /\ \E f \in TrackedFindings :
          /\ foundSubjects' = FoundSubjects(TrackingSubjectSetAdd(foundSubjects.subjects, f))
          /\ added' = Append(added, f)
    /\ UNCHANGED <<gVars, sVars, dVars, pVars>>

----------------------------------------------------------------------------
(* The classifier as a state machine: Init draws the arguments, the action *)
(* applies DistinguishGraphError to them.                                  *)

DispatchErrors == {GoError(cs, "dispatch failed") : cs \in SUBSET Categories} \cup {NilErr}

Sources == {"SCHEMA", "RELATIONSHIP", "CHECK_WATCH"}

Contexts == {"", "document:doc1#viewer"}

NoOut == [devErr |-> NilDevErr, err |-> NilErr]

ClassifyInit ==
    /\ gPc = "ready"
    /\ gErr \in DispatchErrors
    /\ gSource \in Sources
    /\ gLine \in 0..MaxLine
    /\ gColumn \in 0..MaxLine
    /\ gContext \in Contexts
    /\ gOut = NoOut

ClassifyIdle ==
    /\ gPc = "idle"
    /\ gErr = NilErr
    /\ gSource = "SCHEMA"
    /\ gLine = 0
    /\ gColumn = 0
    /\ gContext = ""
    /\ gOut = NoOut

DistinguishGraphError ==
    /\ gPc = "ready"
    /\ gOut' = distinguishGraphError(gErr, gSource, gLine, gColumn, gContext)
    /\ gPc' = "done"
    /\ UNCHANGED <<gErr, gSource, gLine, gColumn, gContext>>
    /\ UNCHANGED <<sVars, dVars, tVars, pVars>>

----------------------------------------------------------------------------
(* DevContext: values *)

\* The nil *DeveloperErrors, and &DeveloperErrors{InputErrors: list}.
NilDevErrs == [isNil |-> TRUE, InputErrors |-> <<>>]

DeveloperErrors(list) == [isNil |-> FALSE, InputErrors |-> list]

\* Handles: "nil" is the nil interface value.
NilHandle == "nil"

DatastoreHandle == "ds"

DispatcherHandle == "dispatcher"

\* datastore.NoRevision, and the revision of the n-th commit.
NoRevision == [txn |-> 0]

RevisionOf(n) == [txn |-> n]

\* The nil *DevContext, and the struct DevContext.
NilDevContext ==
    [isNil |-> TRUE, Datastore |-> NilHandle, Revision |-> NoRevision,
     CompiledSchema |-> NilHandle, Dispatcher |-> NilHandle]

DevContext(datastore, revision, compiled, dispatcher) ==
    [isNil |-> FALSE, Datastore |-> datastore, Revision |-> revision,
     CompiledSchema |-> compiled, Dispatcher |-> dispatcher]

\* The three values NewDevContext and newDevContextWithDatastore return.
Result(dctx, devErrs, e) == [dctx |-> dctx, devErrs |-> devErrs, err |-> e]

NoResult == Result(NilDevContext, NilDevErrs, NilErr)

\* One call to a collaborator, as the calls log records it.
Call(op, arg) == [op |-> op, arg |-> arg]

CallCount(op) == Cardinality({i \in 1..Len(calls) : calls[i].op = op})

\* The definitions and relationships of a request, named by position.
CaveatName(i) == "caveat" \o ToString(i)

NamespaceName(i) == "definition" \o ToString(i)

\* tuple.String(tpl)
TupleString(i) == "tuple" \o ToString(i)

RequestContexts ==
    {[Schema |-> [CaveatDefinitions |-> [i \in 1..nc |-> CaveatName(i)],
                  ObjectDefinitions |-> [i \in 1..nn |-> NamespaceName(i)]],
      Relationships |-> [i \in 1..nt |-> TupleString(i)]] :
        nc \in 0..MaxCaveats, nn \in 0..MaxNamespaces, nt \in 0..MaxTuples}

\* The datastore before memdb.NewMemdbDatastore, and the handle's state after.
NoDatastore ==
    [created |-> FALSE, caveats |-> {}, namespaces |-> {},
     relationships |-> {}, revision |-> NoRevision]

\* No transaction, and the transaction ReadWriteTx hands to its callback.
NoTx == [status |-> "none", caveats |-> {}, namespaces |-> {}, relationships |-> {}]

BegunTx == [status |-> "active", caveats |-> {}, namespaces |-> {}, relationships |-> {}]

\* tuples holds the outcome of each relationship met, writeErrors the error
\* validateTupleWrite returned for it (nil when it returned none or was not called).
NothingExamined == [caveats |-> <<>>, namespaces |-> <<>>, tuples |-> <<>>, writeErrors |-> <<>>]

\* The errors validateTupleWrite can return: one of each category the
\* classifier knows, and one of none.
TupleWriteErrors ==
    {GoError({c}, "validateTupleWrite failed") : c \in Categories}
    \cup {GoError({}, "validateTupleWrite failed")}

\* The developer error loadCompiled records for a failed definition: with the
\* source position when the failure carries one, else with the definition's name.
SchemaIssue(message, withSource, name) ==
    IF withSource
    THEN DeveloperError(<<message>>, "SCHEMA", "SCHEMA_ISSUE", 1, 1, "source code")
    ELSE DeveloperError(<<message>>, "SCHEMA", "SCHEMA_ISSUE", 0, 0, name)

----------------------------------------------------------------------------
(* NewDevContext *)

DevInit ==
    /\ pc = "NewDevContext"
    /\ requestContext \in RequestContexts
    /\ ds = NoDatastore
    /\ rwt = NoTx
    /\ examined = NothingExamined
    /\ inputErrors = <<>>
    /\ curErr = NilErr
    /\ updates = <<>>
    /\ inner = NoResult
    /\ ret = NoResult
    /\ dc = NilDevContext
    /\ calls = <<>>
    /\ disposeCalls = 0

DevIdle ==
    /\ pc = "idle"
    /\ requestContext =
          [Schema |-> [CaveatDefinitions |-> <<>>, ObjectDefinitions |-> <<>>],
           Relationships |-> <<>>]
    /\ ds = NoDatastore
    /\ rwt = NoTx
    /\ examined = NothingExamined
    /\ inputErrors = <<>>
    /\ curErr = NilErr
    /\ updates = <<>>
    /\ inner = NoResult
    /\ ret = NoResult
    /\ dc = NilDevContext
    /\ calls = <<>>
    /\ disposeCalls = 0

\* NewDevContext, line 39: the datastore is created, or the call ends with
\* the error.
NewMemdbDatastore ==
    /\ pc = "NewDevContext"
    /\ calls' = Append(calls, Call("NewMemdbDatastore", <<>>))
    /\ \E created \in BOOLEAN :
          IF created
          THEN /\ ds' = [ds EXCEPT !.created = TRUE]
               /\ pc' = "CompileSchema"
               /\ UNCHANGED ret
          ELSE /\ ret' = Result(NilDevContext, NilDevErrs, GoError({}, "memdb failed"))
               /\ pc' = "returned"
               /\ UNCHANGED ds
    /\ UNCHANGED <<requestContext, rwt, examined, inputErrors, curErr, updates, inner,
                   dc, disposeCalls>>
    /\ UNCHANGED <<gVars, sVars, tVars, pVars>>

\* newDevContextWithDatastore, lines 61-71: the schema is compiled; on success
\* ds.ReadWriteTx starts the transaction and calls the callback.
CompileSchema ==
    /\ pc = "CompileSchema"
    /\ calls' = Append(calls, Call("CompileSchema", <<>>))
    /\ \E outcome \in {"compiled", "devError", "err"} :
          CASE outcome = "err" ->
                  /\ curErr' = GoError({}, "compile failed")
                  /\ inner' = Result(NilDevContext, NilDevErrs, curErr')
                  /\ pc' = "NewDevContext.check"
                  /\ UNCHANGED rwt
            [] outcome = "devError" ->
                  /\ inner' = Result(NilDevContext,
                                     DeveloperErrors(<<DeveloperError(<<"parse error">>,
                                         "SCHEMA", "SCHEMA_ISSUE", 1, 1, "source code")>>),
                                     NilErr)
                  /\ pc' = "NewDevContext.check"
                  /\ UNCHANGED <<curErr, rwt>>
            [] outcome = "compiled" ->
                  /\ rwt' = BegunTx
                  /\ pc' = "loadCompiled"
                  /\ UNCHANGED <<curErr, inner>>
    /\ UNCHANGED <<requestContext, ds, examined, inputErrors, updates, ret, dc,
                   disposeCalls>>
    /\ UNCHANGED <<gVars, sVars, tVars, pVars>>

\* loadCompiled, lines 168-195: one iteration of the loop over the caveat
\* definitions. A valid definition is written; a failed write ends
\* loadCompiled, and with it the callback, with the error.
loadCompiledCaveat ==
    /\ pc = "loadCompiled"
    /\ Len(examined.caveats) < Len(requestContext.Schema.CaveatDefinitions)
    /\ LET caveatDef ==
               requestContext.Schema.CaveatDefinitions[Len(examined.caveats) + 1]
       IN  \E outcome \in {"valid", "writeFailed", "invalidWithSource", "invalid"} :
              /\ examined' = [examined EXCEPT !.caveats = Append(@, outcome)]
              /\ CASE outcome = "valid" ->
                         /\ calls' = Append(calls, Call("WriteCaveats", <<caveatDef>>))
                         /\ rwt' = [rwt EXCEPT !.caveats = @ \cup {caveatDef}]
                         /\ UNCHANGED <<inputErrors, curErr, pc>>
                   [] outcome = "writeFailed" ->
                         /\ calls' = Append(calls, Call("WriteCaveats", <<caveatDef>>))
                         /\ curErr' = GoError({}, "write failed")
                         /\ pc' = "ReadWriteTx.return"
                         /\ UNCHANGED <<inputErrors, rwt>>
                   [] outcome \in {"invalidWithSource", "invalid"} ->
                         /\ inputErrors' =
                               Append(inputErrors,
                                      SchemaIssue("invalid caveat",
                                                  outcome = "invalidWithSource", caveatDef))
                         /\ UNCHANGED <<calls, rwt, curErr, pc>>
    /\ UNCHANGED <<requestContext, ds, updates, inner, ret, dc, disposeCalls>>
    /\ UNCHANGED <<gVars, sVars, tVars, pVars>>

\* Mutant: the scan of the namespace definitions ends at the first invalid one.
loadCompiledNamespaceStopsAtFirstError ==
    /\ pc = "loadCompiled"
    /\ Len(examined.caveats) = Len(requestContext.Schema.CaveatDefinitions)
    /\ Len(examined.namespaces) < Len(requestContext.Schema.ObjectDefinitions)
    /\ LET nsDef ==
               requestContext.Schema.ObjectDefinitions[Len(examined.namespaces) + 1]
       IN  \E outcome \in {"valid", "writeFailed", "typeSystemErrorWithSource",
                           "typeSystemError", "invalidWithSource", "invalid"} :
              /\ examined' = [examined EXCEPT !.namespaces = Append(@, outcome)]
              /\ CASE outcome = "valid" ->
                         /\ calls' = Append(calls, Call("WriteNamespaces", <<nsDef>>))
                         /\ rwt' = [rwt EXCEPT !.namespaces = @ \cup {nsDef}]
                         /\ UNCHANGED <<inputErrors, curErr, pc>>
                   [] outcome = "writeFailed" ->
                         /\ calls' = Append(calls, Call("WriteNamespaces", <<nsDef>>))
                         /\ curErr' = GoError({}, "write failed")
                         /\ pc' = "ReadWriteTx.return"
                         /\ UNCHANGED <<inputErrors, rwt>>
                   [] outcome \in {"typeSystemErrorWithSource", "typeSystemError"} ->
                         /\ inputErrors' =
                               Append(inputErrors,
                                      SchemaIssue("type system error",
                                                  outcome = "typeSystemErrorWithSource",
                                                  nsDef))
                         /\ pc' = "ReadWriteTx.return"
                         /\ UNCHANGED <<calls, rwt, curErr>>
                   [] outcome \in {"invalidWithSource", "invalid"} ->
                         /\ inputErrors' =
                               Append(inputErrors,
                                      SchemaIssue("invalid definition",
                                                  outcome = "invalidWithSource", nsDef))
                         /\ pc' = "ReadWriteTx.return"
                         /\ UNCHANGED <<calls, rwt, curErr>>
    /\ UNCHANGED <<requestContext, ds, updates, inner, ret, dc, disposeCalls>>
    /\ UNCHANGED <<gVars, sVars, tVars, pVars>>

\* loadCompiled, lines 197-248: one iteration of the loop over the namespace
\* definitions: the type system is built, then validated, then the definition
\* is written.
loadCompiledNamespace ==
    /\ pc = "loadCompiled"
    /\ Len(examined.caveats) = Len(requestContext.Schema.CaveatDefinitions)
    /\ Len(examined.namespaces) < Len(requestContext.Schema.ObjectDefinitions)
    /\ LET nsDef ==
               requestContext.Schema.ObjectDefinitions[Len(examined.namespaces) + 1]
       IN  \E outcome \in {"valid", "writeFailed", "typeSystemErrorWithSource",
                           "typeSystemError", "invalidWithSource", "invalid"} :
              /\ examined' = [examined EXCEPT !.namespaces = Append(@, outcome)]
              /\ CASE outcome = "valid" ->
                         /\ calls' = Append(calls, Call("WriteNamespaces", <<nsDef>>))
                         /\ rwt' = [rwt EXCEPT !.namespaces = @ \cup {nsDef}]
                         /\ UNCHANGED <<inputErrors, curErr, pc>>
                   [] outcome = "writeFailed" ->
                         /\ calls' = Append(calls, Call("WriteNamespaces", <<nsDef>>))
                         /\ curErr' = GoError({}, "write failed")
                         /\ pc' = "ReadWriteTx.return"
                         /\ UNCHANGED <<inputErrors, rwt>>
                   [] outcome \in {"typeSystemErrorWithSource", "typeSystemError"} ->
                         /\ inputErrors' =
                               Append(inputErrors,
                                      SchemaIssue("type system error",
                                                  outcome = "typeSystemErrorWithSource",
                                                  nsDef))
                         /\ UNCHANGED <<calls, rwt, curErr, pc>>
                   [] outcome \in {"invalidWithSource", "invalid"} ->
                         /\ inputErrors' =
                               Append(inputErrors,
                                      SchemaIssue("invalid definition",
                                                  outcome = "invalidWithSource", nsDef))
                         /\ UNCHANGED <<calls, rwt, curErr, pc>>
    /\ UNCHANGED <<requestContext, ds, updates, inner, ret, dc, disposeCalls>>
    /\ UNCHANGED <<gVars, sVars, tVars, pVars>>

\* loadCompiled, line 250, and the callback, lines 72-75: loadCompiled returns
\* (errors, nil); with developer errors the callback returns err, which is nil,
\* and otherwise goes on to loadTuples.
loadCompiledReturn ==
    /\ pc = "loadCompiled"
    /\ Len(examined.caveats) = Len(requestContext.Schema.CaveatDefinitions)
    /\ Len(examined.namespaces) = Len(requestContext.Schema.ObjectDefinitions)
    /\ curErr' = NilErr
    /\ pc' = IF Len(inputErrors) > 0 THEN "ReadWriteTx.return" ELSE "loadTuples"
    /\ UNCHANGED <<requestContext, ds, rwt, examined, inputErrors, updates, inner, ret,
                   dc, calls, disposeCalls>>
    /\ UNCHANGED <<gVars, sVars, tVars, pVars>>

\* tuple.Touch(tpl)
Touch(tpl) == [operation |-> "TOUCH", tuple |-> tpl]

\* Mutant: a relationship whose write-time validation fails with an
\* infrastructural error is skipped and the scan goes on.
loadTuplesTupleSkipsFailure ==
    /\ pc = "loadTuples"
    /\ Len(examined.tuples) < Len(requestContext.Relationships)
    /\ LET tpl == requestContext.Relationships[Len(examined.tuples) + 1]
       IN  \E outcome \in {"valid", "malformed", "writeError"}, werr \in TupleWriteErrors :
              LET classified == distinguishGraphError(werr, "RELATIONSHIP", 0, 0, tpl)
              IN  CASE outcome = "malformed" ->
                         /\ examined' = [examined EXCEPT !.tuples = Append(@, "malformed"),
                                                      !.writeErrors = Append(@, NilErr)]
                         /\ inputErrors' =
                               Append(inputErrors,
                                      DeveloperError(<<"invalid relationship">>,
                                                     "RELATIONSHIP", "PARSE_ERROR", 0, 0, tpl))
                         /\ UNCHANGED <<updates, curErr, pc>>
                    [] outcome = "writeError" /\ classified.devErr # NilDevErr ->
                         /\ examined' = [examined EXCEPT !.tuples = Append(@, "rejected"),
                                                      !.writeErrors = Append(@, werr)]
                         /\ inputErrors' = Append(inputErrors, classified.devErr)
                         /\ UNCHANGED <<updates, curErr, pc>>
                    [] outcome = "writeError" /\ classified.devErr = NilDevErr ->
                         /\ examined' = [examined EXCEPT !.tuples = Append(@, "failed"),
                                                      !.writeErrors = Append(@, werr)]
                         /\ UNCHANGED <<updates, inputErrors, curErr, pc>>
                    [] outcome = "valid" ->
                         /\ examined' = [examined EXCEPT !.tuples = Append(@, "valid"),
                                                      !.writeErrors = Append(@, NilErr)]
                         /\ updates' = Append(updates, Touch(tpl))
                         /\ UNCHANGED <<inputErrors, curErr, pc>>
    /\ UNCHANGED <<requestContext, ds, rwt, inner, ret, dc, calls, disposeCalls>>
    /\ UNCHANGED <<gVars, sVars, tVars, pVars>>

\* loadTuples, lines 126-150: one iteration of the loop over the relationships.
loadTuplesTuple ==
    /\ pc = "loadTuples"
    /\ Len(examined.tuples) < Len(requestContext.Relationships)
    /\ LET tpl == requestContext.Relationships[Len(examined.tuples) + 1]
       IN  \E outcome \in {"valid", "malformed", "writeError"}, werr \in TupleWriteErrors :
              LET classified == distinguishGraphError(werr, "RELATIONSHIP", 0, 0, tpl)
              IN  CASE outcome = "malformed" ->
                         /\ examined' = [examined EXCEPT !.tuples = Append(@, "malformed"),
                                                      !.writeErrors = Append(@, NilErr)]
                         /\ inputErrors' =
                               Append(inputErrors,
                                      DeveloperError(<<"invalid relationship">>,
                                                     "RELATIONSHIP", "PARSE_ERROR", 0, 0, tpl))
                         /\ UNCHANGED <<updates, curErr, pc>>
                    [] outcome = "writeError" /\ classified.devErr # NilDevErr ->
                         /\ examined' = [examined EXCEPT !.tuples = Append(@, "rejected"),
                                                      !.writeErrors = Append(@, werr)]
                         /\ inputErrors' = Append(inputErrors, classified.devErr)
                         /\ UNCHANGED <<updates, curErr, pc>>
                    [] outcome = "writeError" /\ classified.devErr = NilDevErr ->
                         /\ examined' = [examined EXCEPT !.tuples = Append(@, "failed"),
                                                      !.writeErrors = Append(@, werr)]
                         /\ curErr' = classified.err
                         /\ pc' = "ReadWriteTx.return"
                         /\ UNCHANGED <<updates, inputErrors>>
                    [] outcome = "valid" ->
                         /\ examined' = [examined EXCEPT !.tuples = Append(@, "valid"),
                                                      !.writeErrors = Append(@, NilErr)]
                         /\ updates' = Append(updates, Touch(tpl))
                         /\ UNCHANGED <<inputErrors, curErr, pc>>
    /\ UNCHANGED <<requestContext, ds, rwt, inner, ret, dc, calls, disposeCalls>>
    /\ UNCHANGED <<gVars, sVars, tVars, pVars>>

\* loadTuples, lines 152-154, and the callback, lines 77-82: the updates
\* gathered by the loop are written and the callback returns the write's error.
loadTuplesWrite ==
    /\ pc = "loadTuples"
    /\ Len(examined.tuples) = Len(requestContext.Relationships)
    /\ calls' = Append(calls, Call("WriteRelationships",
                                   [i \in 1..Len(updates) |-> updates[i].tuple]))
    /\ \E written \in BOOLEAN :
          IF written
          THEN /\ rwt' = [rwt EXCEPT !.relationships =
                                        @ \cup {updates[i].tuple : i \in 1..Len(updates)}]
               /\ curErr' = NilErr
          ELSE /\ curErr' = GoError({}, "write failed")
               /\ UNCHANGED rwt
    /\ pc' = "ReadWriteTx.return"
    /\ UNCHANGED <<requestContext, ds, examined, inputErrors, updates, inner, ret, dc,
                   disposeCalls>>
    /\ UNCHANGED <<gVars, sVars, tVars, pVars>>

\* ReadWriteTx of the datastore: the transaction is committed when the
\* callback returns nil and rolled back when it returns an error.
ReadWriteTxCommits(callbackErr) == callbackErr = NilErr

\* newDevContextWithDatastore, lines 71-83: the callback has returned err and
\* ds.ReadWriteTx ends the transaction and returns (currentRevision, err).
ReadWriteTxReturn ==
    /\ pc = "ReadWriteTx.return"
    /\ IF ReadWriteTxCommits(curErr)
       THEN \E committed \in BOOLEAN :
               IF committed
               THEN /\ ds' = [ds EXCEPT !.caveats = @ \cup rwt.caveats,
                                        !.namespaces = @ \cup rwt.namespaces,
                                        !.relationships = @ \cup rwt.relationships,
                                        !.revision = RevisionOf(@.txn + 1)]
                    /\ rwt' = [rwt EXCEPT !.status = "committed"]
                    /\ UNCHANGED curErr
               ELSE /\ curErr' = GoError({}, "commit failed")
                    /\ rwt' = [rwt EXCEPT !.status = "aborted"]
                    /\ UNCHANGED ds
       ELSE /\ rwt' = [rwt EXCEPT !.status = "aborted"]
            /\ UNCHANGED <<ds, curErr>>
    /\ pc' = "newDevContextWithDatastore.check"
    /\ UNCHANGED <<requestContext, examined, inputErrors, updates, inner, ret, dc, calls,
                   disposeCalls>>
    /\ UNCHANGED <<gVars, sVars, tVars, pVars>>

\* Mutant: the request is validated before the outcome of the loading is looked at.
newDevContextWithDatastoreReturnValidatesFirst ==
    /\ pc = "newDevContextWithDatastore.check"
    /\ calls' = Append(calls, Call("Validate", <<>>))
    /\ \E valid \in BOOLEAN :
          inner' = IF ~valid
                   THEN Result(NilDevContext, NilDevErrs, GoError({}, "invalid request"))
                   ELSE IF curErr # NilErr \/ Len(inputErrors) > 0
                   THEN Result(NilDevContext, DeveloperErrors(inputErrors), curErr)
                   ELSE Result(DevContext(DatastoreHandle, ds.revision, "compiled",
                                          DispatcherHandle),
                               NilDevErrs, NilErr)
    /\ pc' = "NewDevContext.check"
    /\ UNCHANGED <<requestContext, ds, rwt, examined, inputErrors, curErr, updates, ret, dc,
                   disposeCalls>>
    /\ UNCHANGED <<gVars, sVars, tVars, pVars>>

\* newDevContextWithDatastore, lines 84-102: the three values it returns once
\* the transaction has ended.
newDevContextWithDatastoreReturn ==
    /\ pc = "newDevContextWithDatastore.check"
    /\ IF curErr # NilErr \/ Len(inputErrors) > 0
       THEN /\ inner' = Result(NilDevContext, DeveloperErrors(inputErrors), curErr)
            /\ UNCHANGED calls
       ELSE /\ calls' = Append(calls, Call("Validate", <<>>))
            /\ \E valid \in BOOLEAN :
                  inner' = IF valid
                           THEN Result(DevContext(DatastoreHandle, ds.revision, "compiled",
                                                  DispatcherHandle),
                                       NilDevErrs, NilErr)
                           ELSE Result(NilDevContext, NilDevErrs,
                                       GoError({}, "invalid request"))
    /\ pc' = "NewDevContext.check"
    /\ UNCHANGED <<requestContext, ds, rwt, examined, inputErrors, curErr, updates, ret, dc,
                   disposeCalls>>
    /\ UNCHANGED <<gVars, sVars, tVars, pVars>>

\* Mutant: the datastore is closed only when an error came back, not when
\* developer errors did.
NewDevContextReturnClosesOnErrorOnly ==
    /\ pc = "NewDevContext.check"
    /\ IF inner.err # NilErr
       THEN /\ calls' = Append(calls, Call("Datastore.Close", <<DatastoreHandle>>))
            /\ \E closed \in BOOLEAN :
                  ret' = IF closed THEN inner
                         ELSE Result(NilDevContext, NilDevErrs, GoError({}, "close failed"))
       ELSE /\ ret' = Result(inner.dctx, inner.devErrs, NilErr)
            /\ UNCHANGED calls
    /\ dc' = ret'.dctx
    /\ pc' = "returned"
    /\ UNCHANGED <<requestContext, ds, rwt, examined, inputErrors, curErr, updates, inner,
                   disposeCalls>>
    /\ UNCHANGED <<gVars, sVars, tVars, pVars>>

\* NewDevContext, lines 45-56: on an error or developer errors the datastore is
\* closed and the three values are passed on (or the Close error returned);
\* otherwise the DevContext is returned.
NewDevContextReturn ==
    /\ pc = "NewDevContext.check"
    /\ IF inner.err # NilErr \/ ~inner.devErrs.isNil
       THEN /\ calls' = Append(calls, Call("Datastore.Close", <<DatastoreHandle>>))
            /\ \E closed \in BOOLEAN :
                  ret' = IF closed THEN inner
                         ELSE Result(NilDevContext, NilDevErrs, GoError({}, "close failed"))
       ELSE /\ ret' = Result(inner.dctx, NilDevErrs, NilErr)
            /\ UNCHANGED calls
    /\ dc' = ret'.dctx
    /\ pc' = "returned"
    /\ UNCHANGED <<requestContext, ds, rwt, examined, inputErrors, curErr, updates, inner,
                   disposeCalls>>
    /\ UNCHANGED <<gVars, sVars, tVars, pVars>>

----------------------------------------------------------------------------
(* Dispose *)

LogCall(msg) == Call("log", <<msg>>)

\* Mutant: Dispose returns once closing the dispatcher has failed.
disposeStopsOnDispatcherError(d, dispatcherErr, datastoreErr) ==
    IF d.Dispatcher = NilHandle THEN <<>>
    ELSE IF dispatcherErr
    THEN <<Call("Dispatcher.Close", <<d.Dispatcher>>),
           LogCall("error when disposing of dispatcher in devcontext")>>
    ELSE <<Call("Dispatcher.Close", <<d.Dispatcher>>)>>
         \o (IF d.Datastore = NilHandle THEN <<>>
             ELSE <<Call("Datastore.Close", <<d.Datastore>>)>>
                  \o (IF datastoreErr
                      THEN <<LogCall("error when disposing of datastore in devcontext")>>
                      ELSE <<>>))

\* The calls one Dispose makes on the DevContext d, given whether each Close
\* returns an error.
dispose(d, dispatcherErr, datastoreErr) ==
    IF d.Dispatcher = NilHandle THEN <<>>
    ELSE <<Call("Dispatcher.Close", <<d.Dispatcher>>)>>
         \o (IF dispatcherErr
             THEN <<LogCall("error when disposing of dispatcher in devcontext")>>
             ELSE <<>>)
         \o (IF d.Datastore = NilHandle THEN <<>>
             ELSE <<Call("Datastore.Close", <<d.Datastore>>)>>
                  \o (IF datastoreErr
                      THEN <<LogCall("error when disposing of datastore in devcontext")>>
                      ELSE <<>>))

\* A caller builds a DevContext directly, with or without each handle.
DevContextLiteral ==
    /\ pc = "NewDevContext"
    /\ \E dispatcher \in {NilHandle, DispatcherHandle},
          datastore \in {NilHandle, DatastoreHandle} :
          /\ dc' = DevContext(datastore, NoRevision, NilHandle, dispatcher)
          /\ ds' = [ds EXCEPT !.created = (datastore # NilHandle)]
    /\ pc' = "literal"
    /\ UNCHANGED <<requestContext, rwt, examined, inputErrors, curErr, updates, inner, ret,
                   calls, disposeCalls>>
    /\ UNCHANGED <<gVars, sVars, tVars, pVars>>

\* The caller disposes of the DevContext it holds.
Dispose ==
    /\ pc \in {"returned", "literal"}
    /\ ~dc.isNil
    /\ disposeCalls < MaxDispose
    /\ disposeCalls' = disposeCalls + 1
    /\ \E dispatcherErr, datastoreErr \in BOOLEAN :
          calls' = calls \o dispose(dc, dispatcherErr, datastoreErr)
    /\ UNCHANGED <<pc, requestContext, ds, rwt, examined, inputErrors, curErr, updates,
                   inner, ret, dc>>
    /\ UNCHANGED <<gVars, sVars, tVars, pVars>>

----------------------------------------------------------------------------
(* postgres datastore: namespace configs. The tables are sets of rows; a    *)
(* row is live while its deleted transaction is liveDeletedTxnID. Each      *)
(* operation runs in one database transaction, rolled back by the deferred  *)
(* tx.Rollback() on every return before tx.Commit() succeeds.               *)

\* The deleted_transaction of a live row: greater than every transaction id.
liveDeletedTxnID == MaxTxn + 1

\* revisionFromTransaction(txID)
revisionFromTransaction(txID) == [txn |-> txID]

\* datastore.ErrNamespaceNotFound
ErrNamespaceNotFound == GoError({"ErrNamespaceNotFound"}, "namespace not found")

\* An error of the database driver or of proto.
DbError == GoError({}, "database error")

\* fmt.Errorf(format, err) with %w: the text is prefixed, the chain kept.
Errorf(format, err) == [code |-> "NoStatus", cats |-> err.cats, msg |-> <<format>> \o err.msg]

errUnableToWriteConfig == "unable to write namespace config: %w"

errUnableToReadConfig == "unable to read namespace config: %w"

errUnableToDeleteConfig == "unable to delete namespace config: %w"

\* proto.Marshal and proto.Unmarshal of a namespace definition.
Marshal(config) == [bytes |-> config]

Unmarshal(serialized) == serialized.bytes

\* The nil *pb.NamespaceDefinition.
NilConfig == [Name |-> "nil", Body |-> "nil"]

NamespaceDefinition(name, body) == [Name |-> name, Body |-> body]

PgNamespaces == {"ns1", "ns2"}

PgDefinitions == {NamespaceDefinition(n, b) : n \in PgNamespaces, b \in {"v1", "v2"}}

\* A row of tableNamespace and a row of tableTuple.
NamespaceRow(namespace, serialized, created, deleted) ==
    [namespace |-> namespace, config |-> serialized, created |-> created,
     deleted |-> deleted]

TupleRow(namespace, created, deleted) ==
    [namespace |-> namespace, created |-> created, deleted |-> deleted]

\* What a call returned, with the call's name and argument and the step at
\* which it ended.
PgResult(op, nsName, outcome, config, revision, err) ==
    [op |-> op, nsName |-> nsName, outcome |-> outcome, config |-> config,
     revision |-> revision, err |-> err]

NoCall == PgResult("none", "none", "none", NilConfig, NoRevision, NilErr)

\* The last successful mutation of a namespace name: none yet.
NoMutation == [op |-> "none", config |-> NilConfig, revision |-> NoRevision]

\* The rows readNamespace selects for a name: the live ones.
LiveNamespaceRows(rows, namespace) ==
    {r \in rows : r.deleted = liveDeletedTxnID /\ r.namespace = namespace}

\* loadNamespace: the results QueryRowxContext(...).Scan and proto.Unmarshal
\* can give. Scan reads one of the selected rows; no row is ErrNoRows, which
\* becomes ErrNamespaceNotFound; any other failure is returned as it is.
loadNamespace(rows, namespace) ==
    {[loaded |-> NilConfig, version |-> NoRevision, err |-> DbError]}
    \cup
    (IF LiveNamespaceRows(rows, namespace) = {}
     THEN {[loaded |-> NilConfig, version |-> NoRevision, err |-> ErrNamespaceNotFound]}
     ELSE {[loaded |-> Unmarshal(r.config), version |-> revisionFromTransaction(r.created),
            err |-> NilErr] : r \in LiveNamespaceRows(rows, namespace)})

PgInit ==
    /\ nsRows = {}
    /\ tplRows = {}
    /\ lastTxn = 0
    /\ pgOut = NoCall
    /\ pgBefore = [namespaces |-> {}, tuples |-> {}]
    /\ lastMutation = [n \in PgNamespaces |-> NoMutation]
    /\ revisions = <<>>

\* No call is ever made.
PgIdle == PgInit

\* WriteNamespace: the steps that can fail are proto.Marshal, BeginTxx,
\* createNewTransaction, the insert (ToSql, ExecContext) and Commit.
WriteNamespace ==
    \E newConfig \in PgDefinitions,
       outcome \in {"marshalFailed", "beginFailed", "txnFailed", "execFailed",
                    "commitFailed", "ok"} :
       LET newTxnID == lastTxn + 1
           created == outcome \in {"execFailed", "commitFailed", "ok"}
       IN  /\ created => lastTxn < MaxTxn
           /\ lastTxn' = IF created THEN newTxnID ELSE lastTxn
           /\ pgBefore' = [namespaces |-> nsRows, tuples |-> tplRows]
           /\ IF outcome = "ok"
              THEN /\ nsRows' = nsRows \cup {NamespaceRow(newConfig.Name, Marshal(newConfig),
                                                           newTxnID, liveDeletedTxnID)}
                   /\ pgOut' = PgResult("WriteNamespace", newConfig.Name, outcome, newConfig,
                                        revisionFromTransaction(newTxnID), NilErr)
                   /\ lastMutation' =
                         [lastMutation EXCEPT ![newConfig.Name] =
                             [op |-> "WriteNamespace", config |-> newConfig,
                              revision |-> revisionFromTransaction(newTxnID)]]
                   /\ revisions' = Append(revisions, revisionFromTransaction(newTxnID))
              ELSE /\ pgOut' = PgResult("WriteNamespace", newConfig.Name, outcome, newConfig,
                                        NoRevision, Errorf(errUnableToWriteConfig, DbError))
                   /\ UNCHANGED <<nsRows, lastMutation, revisions>>
           /\ UNCHANGED tplRows
           /\ UNCHANGED <<gVars, sVars, tVars, dVars>>

\* ReadNamespace: BeginTxx, then loadNamespace; ErrNamespaceNotFound is
\* returned as it is, any other error wrapped.
ReadNamespace ==
    \E nsName \in PgNamespaces, began \in BOOLEAN :
       /\ pgBefore' = [namespaces |-> nsRows, tuples |-> tplRows]
       /\ IF ~began
          THEN pgOut' = PgResult("ReadNamespace", nsName, "beginFailed", NilConfig,
                                 NoRevision, Errorf(errUnableToReadConfig, DbError))
          ELSE \E found \in loadNamespace(nsRows, nsName) :
                  pgOut' =
                     IF found.err = ErrNamespaceNotFound
                     THEN PgResult("ReadNamespace", nsName, "notFound", NilConfig,
                                   NoRevision, found.err)
                     ELSE IF found.err = NilErr
                     THEN PgResult("ReadNamespace", nsName, "ok", found.loaded,
                                   found.version, NilErr)
                     ELSE PgResult("ReadNamespace", nsName, "loadFailed", NilConfig,
                                   NoRevision, Errorf(errUnableToReadConfig, found.err))
       /\ UNCHANGED <<nsRows, tplRows, lastTxn, lastMutation, revisions>>
       /\ UNCHANGED <<gVars, sVars, tVars, dVars>>

\* The rows of a table with those that test selects marked deleted by txn.
MarkDeleted(rows, selected, txn) ==
    (rows \ selected) \cup {[r EXCEPT !.deleted = txn] : r \in selected}

\* DeleteNamespace: BeginTxx, loadNamespace, createNewTransaction, the update
\* of the namespace row created at version, the update of the live tuples of
\* the namespace, Commit; the revision returned is version.
DeleteNamespace ==
    \E nsName \in PgNamespaces,
       outcome \in {"beginFailed", "notFound", "loadFailed", "txnFailed", "execFailed",
                    "execTuplesFailed", "commitFailed", "ok"} :
       \E found \in loadNamespace(nsRows, nsName) :
       LET newTxnID == lastTxn + 1
           created == outcome \in {"execFailed", "execTuplesFailed", "commitFailed", "ok"}
           failed(err) == PgResult("DeleteNamespace", nsName, outcome, NilConfig,
                                   NoRevision, err)
       IN  /\ outcome = "notFound" <=> found.err = ErrNamespaceNotFound
           /\ outcome = "loadFailed" <=> found.err = DbError
           /\ outcome # "beginFailed" => TRUE
           /\ created => lastTxn < MaxTxn
           /\ lastTxn' = IF created THEN newTxnID ELSE lastTxn
           /\ pgBefore' = [namespaces |-> nsRows, tuples |-> tplRows]
           /\ IF outcome = "ok"
              THEN /\ nsRows' =
                         MarkDeleted(nsRows,
                                     {r \in LiveNamespaceRows(nsRows, nsName) :
                                         revisionFromTransaction(r.created) = found.version},
                                     newTxnID)
                   /\ tplRows' =
                         MarkDeleted(tplRows,
                                     {r \in tplRows : r.deleted = liveDeletedTxnID
                                                       /\ r.namespace = nsName},
                                     newTxnID)
                   /\ pgOut' = PgResult("DeleteNamespace", nsName, outcome, NilConfig,
                                        found.version, NilErr)
                   /\ lastMutation' =
                         [lastMutation EXCEPT ![nsName] =
                             [op |-> "DeleteNamespace", config |-> NilConfig,
                              revision |-> found.version]]
                   /\ revisions' = Append(revisions, found.version)
              ELSE /\ pgOut' = IF outcome = "notFound"
                               THEN failed(found.err)
                               ELSE IF outcome = "loadFailed"
                               THEN failed(Errorf(errUnableToDeleteConfig, found.err))
                               ELSE failed(Errorf(errUnableToDeleteConfig, DbError))
                   /\ UNCHANGED <<nsRows, tplRows, lastMutation, revisions>>
           /\ UNCHANGED <<gVars, sVars, tVars, dVars>>

\* A relationship of a namespace is written by the datastore's tuple writes:
\* a live row of tableTuple, created in a transaction of its own.
WriteTuples ==
    \E nsName \in PgNamespaces :
       /\ lastTxn < MaxTxn
       /\ ~\E r \in tplRows : r.namespace = nsName /\ r.deleted = liveDeletedTxnID
       /\ lastTxn' = lastTxn + 1
       /\ tplRows' = tplRows \cup {TupleRow(nsName, lastTxn + 1, liveDeletedTxnID)}
       /\ pgBefore' = [namespaces |-> nsRows, tuples |-> tplRows]
       /\ pgOut' = PgResult("WriteTuples", nsName, "ok", NilConfig,
                            revisionFromTransaction(lastTxn + 1), NilErr)
       /\ UNCHANGED <<nsRows, lastMutation, revisions>>
       /\ UNCHANGED <<gVars, sVars, tVars, dVars>>

----------------------------------------------------------------------------
(* Specifications *)

ClassifyNext == DistinguishGraphError

InitClassify == ClassifyInit /\ StringIdle /\ TrackIdle /\ DevIdle /\ PgIdle

SpecClassify == InitClassify /\ [][ClassifyNext]_vars

StringNext ==
    \/ CallToValidationString
    \/ CallExcludedSubjectsFromWildcard

InitString == StringInit /\ ClassifyIdle /\ TrackIdle /\ DevIdle /\ PgIdle

SpecString == InitString /\ [][StringNext]_vars

TrackNext == Add

InitTrack == TrackInit /\ ClassifyIdle /\ StringIdle /\ DevIdle /\ PgIdle

SpecTrack == InitTrack /\ [][TrackNext]_vars

DevNext ==
    \/ NewMemdbDatastore
    \/ CompileSchema
    \/ loadCompiledCaveat
    \/ loadCompiledNamespace
    \/ loadCompiledReturn
    \/ loadTuplesTuple
    \/ loadTuplesWrite
    \/ ReadWriteTxReturn
    \/ newDevContextWithDatastoreReturn
    \/ NewDevContextReturn
    \/ DevContextLiteral
    \/ Dispose

InitDev == DevInit /\ ClassifyIdle /\ StringIdle /\ TrackIdle /\ PgIdle

SpecDev == InitDev /\ [][DevNext]_vars

PgNext ==
    \/ WriteNamespace
    \/ ReadNamespace
    \/ DeleteNamespace
    \/ WriteTuples

InitPg == PgInit /\ ClassifyIdle /\ StringIdle /\ TrackIdle /\ DevIdle

SpecPg == InitPg /\ [][PgNext]_vars

----------------------------------------------------------------------------
(* Properties of the classifier *)

\* The order in which the specification's classification table lists the
\* developer-error conditions, with the kind each one maps to.
DevOrder == <<"MaxDepth", "UnknownNamespace", "UnknownRelation", "InvalidRelation">>

DevKind ==
    <<"MAXIMUM_RECURSION", "UNKNOWN_OBJECT_TYPE", "UNKNOWN_RELATION", "UNKNOWN_RELATION">>

\* The order of the infrastructural rows, with the status code of each.
InfraOrder ==
    <<"RequestCanceled", "InvalidArgument", "InvalidRevision",
      "RelationMissingTypeInfo", "AlwaysFail">>

InfraCode == <<"Canceled", "InvalidArgument", "OutOfRange", "FailedPrecondition", "Internal">>

\* Index of the first row of order whose condition err matches (0: none).
FirstMatch(order, err) ==
    IF \E i \in 1..Len(order) : order[i] \in err.cats
    THEN CHOOSE i \in 1..Len(order) :
            /\ order[i] \in err.cats
            /\ \A j \in 1..(i - 1) : order[j] \notin err.cats
    ELSE 0

\* C5: for every non-nil dispatch error DistinguishGraphError returns exactly
\* one of (developer error, error) as non-nil: never both, never neither.
C5_ExactlyOneResult ==
    (gPc = "done" /\ gErr # NilErr) =>
        ((gOut.devErr # NilDevErr) # (gOut.err # NilErr))

\* C5 witness: an error of no known category was classified and came back as
\* the error half of the pair.
C5_Witness ==
    /\ gPc = "done"
    /\ gErr # NilErr
    /\ gErr.cats = {}
    /\ gOut.devErr = NilDevErr
    /\ gOut.err # NilErr

\* C6: the developer-error conditions are tested in the order max-depth,
\* unknown object type, unknown relation, invalid relation; the first one that
\* matches decides the kind, and the developer error carries the caller's
\* source, line, column and context unchanged.
C6_FirstDevMatchWins ==
    (gPc = "done" /\ FirstMatch(DevOrder, gErr) # 0) =>
        /\ gOut.devErr.kind = DevKind[FirstMatch(DevOrder, gErr)]
        /\ gOut.devErr.source = gSource
        /\ gOut.devErr.line = gLine
        /\ gOut.devErr.column = gColumn
        /\ gOut.devErr.context = gContext

\* C6 witness: an error wrapping both a max-depth and an unknown-object-type
\* error was classified as MAXIMUM_RECURSION, at a non-zero line and column.
C6_Witness ==
    /\ gPc = "done"
    /\ {"MaxDepth", "UnknownNamespace"} \subseteq gErr.cats
    /\ gOut.devErr.kind = "MAXIMUM_RECURSION"
    /\ gLine > 0
    /\ gColumn > 0
    /\ gContext # ""

\* C7: when no developer-error condition matches, the returned error is decided
\* by the first matching row in the order cancellation, invalid argument,
\* invalid revision, missing type information, always-fail; an error matching
\* none of them comes back as the identical value.
C7_InfraMapping ==
    (gPc = "done" /\ FirstMatch(DevOrder, gErr) = 0) =>
        /\ gOut.devErr = NilDevErr
        /\ IF FirstMatch(InfraOrder, gErr) # 0
           THEN gOut.err.code = InfraCode[FirstMatch(InfraOrder, gErr)]
           ELSE gOut.err = gErr

\* C7 witness: an error that is both a cancellation and an invalid argument
\* came back as Canceled.
C7_Witness ==
    /\ gPc = "done"
    /\ gErr.cats = {"RequestCanceled", "InvalidArgument"}
    /\ gOut.err.code = "Canceled"

----------------------------------------------------------------------------
(* Properties of ToValidationString *)

\* The permutations of 1..n.
Perms(n) == {p \in [1..n -> 1..n] : \A i, j \in 1..n : i # j => p[i] # p[j]}

\* f with its exclusion list reordered by p.
Permuted(f, p) ==
    [f EXCEPT !.excludedSubjects = [i \in 1..Len(f.excludedSubjects) |->
                                       f.excludedSubjects[p[i]]]]

\* A wildcard found without a condition, with at least one exclusion, none of
\* the exclusions conditional.
UnconditionalWildcardWithExclusions(f) ==
    /\ f.caveatExpression = NoCaveat
    /\ f.subject.objectId = PublicWildcard
    /\ Len(f.excludedSubjects) > 0
    /\ \A i \in 1..Len(f.excludedSubjects) :
          f.excludedSubjects[i].caveatExpression = NoCaveat

\* C10: for an unconditional wildcard FoundSubject with a non-empty exclusion
\* list ToValidationString returns "<ns>:*#<rel> - {e1, e2, ...}", the e's being
\* the ONR strings of the excluded subjects in ascending lexicographic order,
\* and every permutation of the exclusion list gives the same result.
C10_SortedExclusions ==
    (sPc = "done" /\ fs.subject.objectId = PublicWildcard) =>
        LET n == Len(fs.excludedSubjects) IN
        /\ UnconditionalWildcardWithExclusions(fs) =>
              /\ ~sOut.panic
              /\ \E p \in Perms(n) :
                    LET es == [i \in 1..n |-> StringONR(fs.excludedSubjects[p[i]].subject)]
                    IN  /\ \A i \in 1..(n - 1) : ~StrLess(es[i + 1], es[i])
                        /\ sOut.str = StringONR(fs.subject) \o <<" ", "-", " ", "{">>
                                        \o StringsJoin(es, <<",", " ">>) \o <<"}">>
        /\ \A p \in Perms(n) : ToValidationString(Permuted(fs, p)) = sOut

\* C10 witness: a wildcard with three exclusions stored in descending order of
\* their ONR strings was rendered.
C10_Witness ==
    /\ sPc = "done"
    /\ UnconditionalWildcardWithExclusions(fs)
    /\ Len(fs.excludedSubjects) = 3
    /\ StrLess(StringONR(fs.excludedSubjects[2].subject),
               StringONR(fs.excludedSubjects[1].subject))
    /\ StrLess(StringONR(fs.excludedSubjects[3].subject),
               StringONR(fs.excludedSubjects[2].subject))
    /\ ~sOut.panic

\* f has an excluded entry that carries a caveat expression.
HasConditionalExclusion(f) ==
    \E i \in 1..Len(f.excludedSubjects) : f.excludedSubjects[i].caveatExpression # NoCaveat

\* C11: the export operations never drop caveat information silently:
\* ExcludedSubjectsFromWildcard panics (returns no list) for a FoundSubject with
\* an excluded entry carrying a caveat expression, and ToValidationString
\* panics for a FoundSubject whose own caveatExpression is non-nil or that has
\* such an excluded entry; without any caveat expression neither panics.
C11_CaveatsNeverDropped ==
    /\ sPc = "exported" => (eOut.panic <=> HasConditionalExclusion(fs))
    /\ sPc = "done" =>
          (sOut.panic <=> (fs.caveatExpression # NoCaveat \/ HasConditionalExclusion(fs)))

\* C11 witness: ExcludedSubjectsFromWildcard was called on an unconditional
\* wildcard whose second excluded entry carries a caveat expression, and panicked.
C11_Witness ==
    /\ sPc = "exported"
    /\ fs.caveatExpression = NoCaveat
    /\ Len(fs.excludedSubjects) >= 2
    /\ fs.excludedSubjects[1].caveatExpression = NoCaveat
    /\ fs.excludedSubjects[2].caveatExpression # NoCaveat
    /\ eOut.panic

----------------------------------------------------------------------------
(* Properties of the Subject Tracking Set *)

\* The positions in added of the findings of subject.
AddsOf(subject) == {i \in 1..Len(added) : added[i].subject = subject}

\* The tracking set after the findings of log were added to the empty set.
RECURSIVE AddAll(_)
AddAll(log) ==
    IF log = <<>> THEN <<>>
    ELSE TrackingSubjectSetAdd(AddAll(SubSeq(log, 1, Len(log) - 1)), log[Len(log)])

\* Whether a caveat expression holds when the caveats of env hold.
Holds(expr, env) == expr = NoCaveat \/ CaveatNames(expr) \cap env # {}

\* What an entry says about its subject: the relationships, the condition and
\* the set of excluded subjects.
Observed(f) ==
    [subject |-> f.subject,
     relationships |-> f.relationships,
     condition |-> {env \in SUBSET CaveatAtoms : Holds(f.caveatExpression, env)},
     excluded |-> ExcludedSubjectsOf(f)]

ObservedSlice(slice) == [i \in 1..Len(slice) |-> Observed(slice[i])]

\* The last two findings added are findings of the same subject.
LastTwoSameSubject ==
    /\ Len(added) >= 2
    /\ added[Len(added)].subject = added[Len(added) - 1].subject

\* added with its last two findings swapped.
LastTwoSwapped ==
    SubSeq(added, 1, Len(added) - 2) \o <<added[Len(added)], added[Len(added) - 1]>>

\* C12: the excluded subjects of the entry of a wildcard are the intersection
\* of the exclusion sets of the findings added for it; exclusions {X} merged
\* with exclusions {} give {}, in either order.
C12_ExclusionsIntersected ==
    AddsOf(WildcardSubject) # {} =>
        /\ LookupSubject(foundSubjects, WildcardSubject).found
        /\ ExcludedSubjectsOf(LookupSubject(foundSubjects, WildcardSubject).value)
              = {s \in ConcreteSubjects :
                    \A i \in AddsOf(WildcardSubject) : s \in ExcludedSubjectsOf(added[i])}

\* C12 witness: the wildcard was found excluding two subjects and then
\* excluding one of them, and the entry excludes that one.
C12_Witness ==
    /\ Len(added) = 2
    /\ AddsOf(WildcardSubject) = {1, 2}
    /\ Len(added[1].excludedSubjects) = 2
    /\ Len(added[2].excludedSubjects) = 1
    /\ ExcludedSubjectsOf(LookupSubject(foundSubjects, WildcardSubject).value)
          = ExcludedSubjectsOf(added[2])

\* C13: the entry of a subject is unconditional when one of the findings added
\* for it is unconditional, in whatever order they came; when all of them are
\* conditional its expression is the logical OR of theirs.
C13_UnconditionalDominates ==
    \A i \in 1..Len(added) :
        LET entry == LookupSubject(foundSubjects, added[i].subject).value
            adds == AddsOf(added[i].subject)
        IN  IF \E j \in adds : added[j].caveatExpression = NoCaveat
            THEN entry.caveatExpression = NoCaveat
            ELSE /\ entry.caveatExpression # NoCaveat
                 /\ \A env \in SUBSET CaveatAtoms :
                       Holds(entry.caveatExpression, env)
                          <=> \E j \in adds : Holds(added[j].caveatExpression, env)

\* C13 witness: a conditional finding was added first and an unconditional one
\* of the same subject second, and the entry is unconditional.
C13_Witness ==
    /\ Len(added) = 2
    /\ LastTwoSameSubject
    /\ added[1].caveatExpression # NoCaveat
    /\ added[2].caveatExpression = NoCaveat
    /\ LookupSubject(foundSubjects, added[1].subject).value.caveatExpression = NoCaveat

\* C14: adding two findings of the same subject in one order or the other
\* leaves the set in the same state: for every entry the same relationships,
\* the same caveat condition and the same set of excluded subjects, and the
\* same ListFound content.
C14_MergeCommutes ==
    LastTwoSameSubject =>
        ObservedSlice(ListFound(foundSubjects)) = ObservedSlice(ToSlice(AddAll(LastTwoSwapped)))

\* C14 witness: after an earlier finding, two findings of the wildcard that
\* differ in relationships, condition and exclusions were added.
C14_Witness ==
    /\ Len(added) = 3
    /\ LastTwoSameSubject
    /\ added[1].subject = WildcardSubject
    /\ added[2].subject = WildcardSubject
    /\ added[2].relationships # added[3].relationships
    /\ added[2].caveatExpression # added[3].caveatExpression
    /\ ExcludedSubjectsOf(added[2]) # ExcludedSubjectsOf(added[3])

\* C15: adding a finding a second time, right after it was added, leaves the
\* set as the first addition left it: the same entries in the same order with
\* every field the same.
C15_AddIdempotent ==
    (Len(added) >= 2 /\ added[Len(added)] = added[Len(added) - 1]) =>
        /\ foundSubjects = FoundSubjects(AddAll(SubSeq(added, 1, Len(added) - 1)))
        /\ ListFound(foundSubjects) = ToSlice(AddAll(SubSeq(added, 1, Len(added) - 1)))

\* C15 witness: a conditional wildcard with exclusions was added twice to a set
\* that already held an entry for the wildcard.
C15_Witness ==
    /\ Len(added) = 3
    /\ added[3] = added[2]
    /\ added[1].subject = WildcardSubject
    /\ added[2].subject = WildcardSubject
    /\ added[2].caveatExpression # NoCaveat
    /\ Len(added[2].excludedSubjects) > 0

----------------------------------------------------------------------------
(* Properties of NewDevContext and Dispose *)

\* The definitions loadCompiled found invalid so far.
InvalidOutcomes ==
    {"invalidWithSource", "invalid", "typeSystemErrorWithSource", "typeSystemError"}

SchemaErrorsFound ==
    \/ \E i \in 1..Len(examined.caveats) : examined.caveats[i] \in InvalidOutcomes
    \/ \E i \in 1..Len(examined.namespaces) : examined.namespaces[i] \in InvalidOutcomes

\* The positions of the relationships that failed with a developer error.
FailedTuples ==
    {i \in 1..Len(examined.tuples) : examined.tuples[i] \in {"malformed", "rejected"}}

\* The position of the k-th relationship that failed with a developer error.
NthFailedTuple(k) ==
    CHOOSE i \in FailedTuples : Cardinality({j \in FailedTuples : j <= i}) = k

\* The positions of a loop's outcomes that are invalid definitions.
InvalidAt(outcomes) == {i \in 1..Len(outcomes) : outcomes[i] \in InvalidOutcomes}

\* A storage write failed while the schema was loaded.
SchemaWriteFailed ==
    \/ \E i \in 1..Len(examined.caveats) : examined.caveats[i] = "writeFailed"
    \/ \E i \in 1..Len(examined.namespaces) : examined.namespaces[i] = "writeFailed"

\* loadCompiled was called and has returned.
LoadCompiledReturned ==
    /\ rwt.status # "none"
    /\ pc \notin {"NewDevContext", "CompileSchema", "loadCompiled"}

\* The developer errors of inputErrors whose source is the schema.
SchemaErrors == SelectSeq(inputErrors, LAMBDA e : e.source = "SCHEMA")

\* C16: loadCompiled accumulates developer errors: each invalid definition met
\* adds exactly one SCHEMA_ISSUE error of source SCHEMA, the errors of the
\* caveats before those of the namespaces; unless a storage write fails, every
\* caveat and namespace definition has been examined when it returns; a failed
\* write ends the scan at that definition, adds no developer error and is
\* returned as the error.
C16_SchemaErrorsAccumulate ==
    /\ Len(SchemaErrors) =
          Cardinality(InvalidAt(examined.caveats)) + Cardinality(InvalidAt(examined.namespaces))
    /\ \A k \in 1..Len(SchemaErrors) :
          /\ SchemaErrors[k].kind = "SCHEMA_ISSUE"
          /\ SchemaErrors[k] = inputErrors[k]
          /\ (SchemaErrors[k].message = <<"invalid caveat">>)
                <=> k <= Cardinality(InvalidAt(examined.caveats))
    /\ (LoadCompiledReturned /\ ~SchemaWriteFailed) =>
          /\ Len(examined.caveats) = Len(requestContext.Schema.CaveatDefinitions)
          /\ Len(examined.namespaces) = Len(requestContext.Schema.ObjectDefinitions)
    /\ \A i \in 1..Len(examined.caveats) :
          examined.caveats[i] = "writeFailed" =>
             /\ i = Len(examined.caveats)
             /\ examined.namespaces = <<>>
             /\ examined.tuples = <<>>
             /\ pc = "ReadWriteTx.return" => curErr # NilErr
    /\ \A i \in 1..Len(examined.namespaces) :
          examined.namespaces[i] = "writeFailed" =>
             /\ i = Len(examined.namespaces)
             /\ examined.tuples = <<>>
             /\ pc = "ReadWriteTx.return" => curErr # NilErr

\* C16 witness: loadCompiled returned after an invalid caveat, an invalid
\* namespace definition and then a valid one, which it wrote.
C16_Witness ==
    /\ LoadCompiledReturned
    /\ Len(examined.caveats) = 1
    /\ examined.caveats[1] \in InvalidOutcomes
    /\ Len(examined.namespaces) = 2
    /\ examined.namespaces[1] \in InvalidOutcomes
    /\ examined.namespaces[2] = "valid"
    /\ Len(inputErrors) = 2
    /\ rwt.namespaces = {NamespaceName(2)}

\* C17: in loadTuples the error validateTupleWrite returns for a well-formed
\* relationship is classified by distinguishGraphError: a developer error is
\* recorded, with the relationship as context, and the scan goes on to the next
\* relationship; any other error ends the scan at that relationship and is
\* returned, rewritten by rewriteACLError: no later relationship is examined
\* and WriteRelationships is not called.
C17_WriteErrorsClassified ==
    /\ \A i \in 1..Len(examined.tuples) :
          LET werr == examined.writeErrors[i]
              classified == distinguishGraphError(werr, "RELATIONSHIP", 0, 0, TupleString(i))
          IN  werr # NilErr =>
                IF werr.cats \cap DevCategories # {}
                THEN /\ examined.tuples[i] = "rejected"
                     /\ \E k \in 1..Len(inputErrors) : inputErrors[k] = classified.devErr
                     /\ (i < Len(requestContext.Relationships) /\ pc # "loadTuples")
                           => Len(examined.tuples) > i
                ELSE /\ examined.tuples[i] = "failed"
                     /\ i = Len(examined.tuples)
                     /\ pc # "loadTuples"
                     /\ CallCount("WriteRelationships") = 0
                     /\ pc = "ReadWriteTx.return" => curErr = rewriteACLError(werr)
                     /\ pc = "ReadWriteTx.return" => curErr # NilErr
    /\ \A i \in 1..Len(examined.tuples) :
          examined.tuples[i] \in {"rejected", "failed"} <=> examined.writeErrors[i] # NilErr

\* C17 witness: the first relationship was rejected with an unknown-relation
\* error, which was recorded, and the second failed with an invalid-revision
\* error, which ended the scan before the third.
C17_Witness ==
    /\ Len(requestContext.Relationships) = 3
    /\ examined.tuples = <<"rejected", "failed">>
    /\ examined.writeErrors[1].cats = {"UnknownRelation"}
    /\ examined.writeErrors[2].cats = {"InvalidRevision"}
    /\ pc = "returned"
    /\ Len(inputErrors) = 1
    /\ inputErrors[1].kind = "UNKNOWN_RELATION"
    /\ curErr.code = "OutOfRange"

\* C1: when loadCompiled produces a developer error, nothing written by
\* WriteCaveats/WriteNamespaces is persisted in the datastore, the transaction is
\* aborted rather than committed, and NewDevContext returns a non-empty list of
\* developer errors.
C1_SchemaErrorsAbortTransaction ==
    SchemaErrorsFound =>
        /\ ds.caveats = {}
        /\ ds.namespaces = {}
        /\ pc = "returned" =>
              /\ rwt.status # "committed"
              /\ ~ret.devErrs.isNil
              /\ Len(ret.devErrs.InputErrors) > 0

\* C2: when a relationship fails with a developer error, no relationship is
\* handed to WriteRelationships, and after the call one developer error per
\* failing relationship has been returned, in input order, and the transaction
\* was not committed.
C2_FailedRelationshipSkipsWrite ==
    FailedTuples # {} =>
        /\ \A i \in 1..Len(calls) :
              calls[i].op = "WriteRelationships" => calls[i].arg = <<>>
        /\ pc = "returned" =>
              /\ rwt.status # "committed"
              /\ ~ret.devErrs.isNil
              /\ Len(ret.devErrs.InputErrors) = Cardinality(FailedTuples)
              /\ \A k \in 1..Len(ret.devErrs.InputErrors) :
                    ret.devErrs.InputErrors[k].context = TupleString(NthFailedTuple(k))

\* C3: NewDevContext returns exactly one non-nil value among the DevContext,
\* the developer errors and the error.
C3_ExactlyOneReturnValue ==
    pc = "returned" =>
        Cardinality({v \in {"dctx", "devErrs", "err"} :
                        \/ v = "dctx" /\ ~ret.dctx.isNil
                        \/ v = "devErrs" /\ ~ret.devErrs.isNil
                        \/ v = "err" /\ ret.err # NilErr}) = 1

\* C4: when NewDevContext returns no DevContext, the datastore it created has
\* been closed exactly once; when it returns a DevContext, the datastore has
\* not been closed and is the one the DevContext holds. No Close happens
\* before the final step of NewDevContext.
C4_DatastoreClosedOnFailure ==
    /\ (pc = "returned" /\ ds.created /\ disposeCalls = 0) =>
          IF ret.dctx.isNil
          THEN CallCount("Datastore.Close") = 1
          ELSE /\ CallCount("Datastore.Close") = 0
               /\ ret.dctx.Datastore = DatastoreHandle
               /\ dc = ret.dctx
    /\ pc \notin {"returned", "literal"} => CallCount("Datastore.Close") = 0

\* C4 witness: NewDevContext returned developer errors from the relationships,
\* no DevContext and no error, after closing the datastore once.
C4_Witness ==
    /\ pc = "returned"
    /\ ret.dctx.isNil
    /\ ret.err = NilErr
    /\ ~ret.devErrs.isNil
    /\ FailedTuples # {}
    /\ CallCount("Datastore.Close") = 1

\* requestContext.Validate() was called; it returned an error.
ValidateCalled == CallCount("Validate") > 0

ValidationFailed ==
    /\ ValidateCalled
    /\ inner = Result(NilDevContext, NilDevErrs, GoError({}, "invalid request"))

\* C19: requestContext.Validate() is called only after the schema and the
\* relationships were loaded without developer errors and the transaction was
\* committed; when it fails NewDevContext returns an error alone, no developer
\* errors and no DevContext; a request with an invalid definition or relationship
\* never reaches Validate: newDevContextWithDatastore answers it with developer
\* errors, and the error NewDevContext returns is never the validation error.
C19_ValidationAfterLoading ==
    /\ ValidateCalled =>
          /\ rwt.status = "committed"
          /\ Len(examined.caveats) = Len(requestContext.Schema.CaveatDefinitions)
          /\ Len(examined.namespaces) = Len(requestContext.Schema.ObjectDefinitions)
          /\ Len(examined.tuples) = Len(requestContext.Relationships)
          /\ inputErrors = <<>>
          /\ \E i, j \in 1..Len(calls) :
                /\ calls[i].op = "WriteRelationships"
                /\ calls[j].op = "Validate"
                /\ i < j
          /\ CallCount("Validate") = 1
    /\ (ValidationFailed /\ pc = "returned") =>
          /\ ret.dctx.isNil
          /\ ret.devErrs.isNil
          /\ ret.err # NilErr
    /\ (SchemaErrorsFound \/ FailedTuples # {}) =>
          /\ ~ValidateCalled
          /\ pc = "returned" =>
                /\ ~inner.devErrs.isNil
                /\ Len(inner.devErrs.InputErrors) > 0
                /\ inner.err # GoError({}, "invalid request")
                /\ ret.err # GoError({}, "invalid request")

\* C19 witness: a request whose definitions and relationships all loaded and
\* were committed failed the validation, and NewDevContext returned that error.
C19_Witness ==
    /\ pc = "returned"
    /\ ValidationFailed
    /\ Len(requestContext.Schema.ObjectDefinitions) > 0
    /\ Len(requestContext.Relationships) > 0
    /\ ds.relationships # {}
    /\ ret = Result(NilDevContext, NilDevErrs, GoError({}, "invalid request"))

\* The calls made by the step.
NewCalls == SubSeq(calls', Len(calls) + 1, Len(calls'))

\* C18: a Dispose call closes the dispatcher before the datastore; an error
\* returned by either Close is logged right after that Close and reaches the
\* caller in no other way (Dispose changes nothing the caller holds); after a
\* failed dispatcher Close the datastore, when there is one, is still closed.
C18_DisposeOrder ==
    [][(disposeCalls' = disposeCalls + 1) =>
          /\ \A i \in 1..Len(NewCalls) :
                /\ NewCalls[i].op \in {"Dispatcher.Close", "Datastore.Close", "log"}
                /\ NewCalls[i].op = "Datastore.Close" =>
                      \E j \in 1..(i - 1) : NewCalls[j].op = "Dispatcher.Close"
                /\ NewCalls[i].op = "Dispatcher.Close" => i = 1
                /\ NewCalls[i] = LogCall("error when disposing of dispatcher in devcontext") =>
                      /\ i > 1
                      /\ NewCalls[i - 1].op = "Dispatcher.Close"
                      /\ dc.Datastore # NilHandle =>
                            (i < Len(NewCalls) /\ NewCalls[i + 1].op = "Datastore.Close")
                /\ NewCalls[i] = LogCall("error when disposing of datastore in devcontext") =>
                      /\ i > 1
                      /\ NewCalls[i - 1].op = "Datastore.Close"
          /\ (dc.Dispatcher # NilHandle /\ dc.Datastore # NilHandle) =>
                \E i \in 1..Len(NewCalls) : NewCalls[i].op = "Datastore.Close"
          /\ UNCHANGED <<pc, ret, dc, inner, curErr, inputErrors>>]_vars

\* C18 witness: a Dispose of a DevContext returned by NewDevContext met an
\* error from both Close calls: dispatcher closed, error logged, datastore
\* closed, error logged.
C18_Witness ==
    /\ pc = "returned"
    /\ disposeCalls = 1
    /\ Len(calls) >= 4
    /\ SubSeq(calls, Len(calls) - 3, Len(calls))
          = <<Call("Dispatcher.Close", <<DispatcherHandle>>),
              LogCall("error when disposing of dispatcher in devcontext"),
              Call("Datastore.Close", <<DatastoreHandle>>),
              LogCall("error when disposing of datastore in devcontext")>>

\* C8: Dispose never closes a nil handle, and over any sequence of Dispose
\* calls the dispatcher and the datastore are each closed at most once.
C8_DisposeClosesAtMostOnce ==
    /\ \A i \in 1..Len(calls) :
          calls[i].op \in {"Dispatcher.Close", "Datastore.Close"} =>
             calls[i].arg # <<NilHandle>>
    /\ disposeCalls > 0 =>
          /\ CallCount("Dispatcher.Close") <= 1
          /\ CallCount("Datastore.Close") <= 1

\* C9: once Dispose has returned, the datastore of the DevContext has been
\* closed whenever it is non-nil, whatever the dispatcher is.
C9_DisposeClosesDatastore ==
    (disposeCalls > 0 /\ dc.Datastore # NilHandle) =>
        CallCount("Datastore.Close") >= 1

----------------------------------------------------------------------------
(* Properties of the postgres namespace operations *)

\* The live rows of a namespace in both tables before the last call.
LiveNamespacesBefore == LiveNamespaceRows(pgBefore.namespaces, pgOut.nsName)

LiveTuplesBefore ==
    {r \in pgBefore.tuples : r.deleted = liveDeletedTxnID /\ r.namespace = pgOut.nsName}

RowsAsBefore == nsRows = pgBefore.namespaces /\ tplRows = pgBefore.tuples

\* The transaction ids that occur in the rows before the last call.
TxnsBefore ==
    ({r.created : r \in pgBefore.namespaces \cup pgBefore.tuples}
     \cup {r.deleted : r \in pgBefore.namespaces \cup pgBefore.tuples})
    \ {liveDeletedTxnID}

\* C20: DeleteNamespace is all-or-nothing. With no live row for the name it
\* returns ErrNamespaceNotFound itself and changes no row; when it returns any
\* error no row of either table changed; when it succeeds, every namespace
\* row and every relationship row of the name that was live carries one and
\* the same new transaction id as its deleted transaction, nothing else
\* changed, and a ReadNamespace of the name that follows (no write of the
\* name in between) and reaches the table reports ErrNamespaceNotFound.
C20_DeleteAllOrNothing ==
    /\ pgOut.op = "DeleteNamespace" =>
          /\ (LiveNamespacesBefore = {} /\ pgOut.outcome \notin {"beginFailed", "loadFailed"}) =>
                pgOut.err = ErrNamespaceNotFound /\ RowsAsBefore
          /\ pgOut.err # NilErr => RowsAsBefore
          /\ pgOut.err = NilErr =>
                /\ lastTxn \notin TxnsBefore
                /\ nsRows = MarkDeleted(pgBefore.namespaces, LiveNamespacesBefore, lastTxn)
                /\ tplRows = MarkDeleted(pgBefore.tuples, LiveTuplesBefore, lastTxn)
    /\ ( /\ pgOut.op = "ReadNamespace"
         /\ lastMutation[pgOut.nsName].op = "DeleteNamespace"
         /\ pgOut.outcome \notin {"beginFailed", "loadFailed"} ) =>
          pgOut.err = ErrNamespaceNotFound

\* C21: read-your-writes for namespace configs. Whatever calls were made, a
\* namespace name has at most one live row, and a ReadNamespace of a name
\* whose last successful mutation is a WriteNamespace, once it reaches the
\* table, succeeds with the configuration that WriteNamespace wrote and the
\* revision it returned.
C21_ReadYourWrites ==
    /\ \A n \in PgNamespaces : Cardinality(LiveNamespaceRows(nsRows, n)) <= 1
    /\ ( /\ pgOut.op = "ReadNamespace"
         /\ lastMutation[pgOut.nsName].op = "WriteNamespace"
         /\ pgOut.outcome \notin {"beginFailed", "loadFailed"} ) =>
          /\ pgOut.err = NilErr
          /\ pgOut.config = lastMutation[pgOut.nsName].config
          /\ pgOut.revision = lastMutation[pgOut.nsName].revision

\* The namespace rows the last call marked deleted.
RowsDeleted == {r \in pgBefore.namespaces : r \notin nsRows}

\* C22: the revision a successful WriteNamespace or DeleteNamespace returns
\* is that of the transaction the call committed: the revisions returned by
\* successive successful calls are strictly increasing, and the revision a
\* DeleteNamespace returns is greater than the revision at which the row it
\* deleted was written.
C22_RevisionsIncrease ==
    /\ \A i, j \in 1..Len(revisions) : i < j => revisions[i].txn < revisions[j].txn
    /\ (pgOut.op \in {"WriteNamespace", "DeleteNamespace"} /\ pgOut.err = NilErr) =>
          pgOut.revision = revisionFromTransaction(lastTxn)
    /\ (pgOut.op = "DeleteNamespace" /\ pgOut.err = NilErr) =>
          \A r \in RowsDeleted : pgOut.revision.txn > r.created

====
